---- MODULE Spec2Model ----
(***************************************************************************)
(* Model of src/main.rs: the ruuvitag JSONL socket bridge.                 *)
(*                                                                         *)
(* Tasks: main (bind + accept loop), the ingestion task (bt_event_scan),   *)
(* the monitor task (initial event timeout) and one handle_socket task per *)
(* accepted connection.  They share one tokio broadcast channel.           *)
(*                                                                         *)
(* The channel is modelled by its retained ring (buffer) and its tail      *)
(* position (number of values sent so far); a receiver is its cursor       *)
(* `next`.  The ring size of the program is 32 (main.rs:162); the model    *)
(* is parametric in it and is explored with the small ring Capacity.       *)
(***************************************************************************)
EXTENDS Integers, Sequences, FiniteSets, TLC

\* ---------------------------------------------------------------- bounds
Capacity == 2        \* ring size of the broadcast channel (32 in main.rs:162)
MaxPub == 3          \* records published in one run
MaxSessions == 2     \* connections accepted in one run
MaxIoErrors == 1     \* socket writes failing with a non-BrokenPipe error
MaxTimeout == 1      \* largest initial_event_timeout tried (seconds)

Sessions == 1..MaxSessions

\* ------------------------------------------------- adapter events (inputs)
ManufacturerIds == {"ruuvi", "alien"}

\* payloads an advertisement can carry: a well-formed one, whose
\* measurement sequence number is seq, or a malformed one
Payloads(seq) == {[valid |-> TRUE, seq |-> seq], [valid |-> FALSE, seq |-> 0]}

\* manufacturer_data of one advertisement: a map from some ids to payloads
ManufacturerData(seq) ==
    UNION {[ids -> Payloads(seq)] : ids \in (SUBSET ManufacturerIds) \ {{}}}

\* SensorValues::from_manufacturer_specific_data as used at main.rs:61-64;
\* a decoded SensorValues is identified by its measurement sequence number
from_manufacturer_specific_data(manufacturer_id, bytes) ==
    IF manufacturer_id # "ruuvi"
    THEN [ok |-> FALSE, err |-> "UnknownManufacturerId", sv |-> 0]
    ELSE IF ~bytes.valid
         THEN [ok |-> FALSE, err |-> "Other", sv |-> 0]
         ELSE [ok |-> TRUE, err |-> "none", sv |-> bytes.seq]

\* ------------------------------------------------- SensorValues (inputs)
\* the accessors of SensorValues that handle_socket reads
Accessors ==
    {"acceleration_vector_as_milli_g", "battery_potential_as_millivolts",
     "humidity_as_ppm", "mac_address", "measurement_sequence_number",
     "movement_counter", "pressure_as_pascals",
     "temperature_as_millikelvins", "temperature_as_millicelsius",
     "tx_power_as_dbm"}

\* what an accessor returns when the record has the field: an
\* AccelerationVector(a, b, c), modelled <<a, b, c>>, or a scalar; the
\* readings differ from accessor to accessor
Reading(accessor) ==
    CASE accessor = "acceleration_vector_as_milli_g" -> <<1, 2, 3>>
      [] accessor = "battery_potential_as_millivolts" -> 4
      [] accessor = "humidity_as_ppm" -> 5
      [] accessor = "mac_address" -> 6
      [] accessor = "measurement_sequence_number" -> 7
      [] accessor = "movement_counter" -> 8
      [] accessor = "pressure_as_pascals" -> 9
      [] accessor = "temperature_as_millikelvins" -> 10
      [] accessor = "temperature_as_millicelsius" -> 11
      [] accessor = "tx_power_as_dbm" -> 12

\* Option<T>: None is <<>>, Some(x) is <<x>>
None == <<>>
Some(x) == <<x>>

\* a record has its one temperature or not: the two temperature accessors
\* are Some together
Temperatures == {"temperature_as_millikelvins", "temperature_as_millicelsius"}

\* every SensorValues by what its accessors return: each field present or
\* absent
SensorValuesSet ==
    {[a \in Accessors |-> IF a \in present THEN Some(Reading(a)) ELSE None] :
        present \in {p \in SUBSET Accessors :
                        Temperatures \subseteq p \/ Temperatures \cap p = {}}}

VARIABLES
    initial_event_timeout,  \* opt.initial_event_timeout
    proc,                   \* "running" | "exited"
    exit_code,              \* process exit status once exited
    exit_cause,             \* "none" | "watchdog" | "main_panic"
    main_pc,                \* "bind" | "accept"
    accepted,               \* number of connections accepted so far
    buffer,                 \* retained values of the channel, oldest first
    tail,                   \* number of values sent on the channel
    published,              \* history: every value sent, in order
    recipients,             \* result of the last tx.send
    bt_pc,                  \* position of the ingestion task
    start_result,           \* result of adapter.start_scan
    mon_pc,                 \* "absent" | "spawned" | "armed" | "satisfied" | "expired"
    mon_next,               \* cursor of the monitor's receiver
    elapsed,                \* seconds since the monitor created its sleep
    first_pub,              \* history: monitor state when the first record was sent
    s_pc,                   \* per session: position of handle_socket
    next,                   \* per session: cursor of its receiver
    start,                  \* per session: history, tail position at subscribe()
    sv,                     \* per session: the value recv() returned
    rcvd,                   \* per session: history, every value recv() returned
    lag,                    \* per session: history, every Lagged(n) recv() returned
    json_write_res,         \* per session: result of write_all(json_bytes)
    wire,                   \* per session: what was written to the socket
    broken,                 \* per session: history, a write returned BrokenPipe
    io_errors,              \* number of non-BrokenPipe write errors so far
    attempts,               \* per session: history, awaits of each write step
    json_sv,                \* a SensorValues handed to json!, by accessor
    json_value              \* the serde_json Value json! built from it

chan_vars == <<buffer, tail, published, recipients>>
main_vars == <<main_pc, accepted>>
bt_vars == <<bt_pc, start_result>>
mon_vars == <<mon_pc, mon_next, elapsed>>
proc_vars == <<proc, exit_code, exit_cause>>
sess_vars == <<s_pc, next, start, sv, rcvd, lag, json_write_res,
               wire, broken,
                   io_errors, attempts>>
json_vars == <<json_sv, json_value>>
vars == <<initial_event_timeout, json_vars, proc_vars, main_vars, chan_vars,
          bt_vars, mon_vars, first_pub, sess_vars>>

\* ------------------------------------------------------ broadcast channel
Live == {"recv", "write_json", "write_newline"}

\* the count without main's _rx (as if main had dropped it at once)
RxCountNoMainRx ==
    (IF mon_pc = "armed" THEN 1 ELSE 0)
      + Cardinality({s \in Sessions : s_pc[s] \in Live})

\* receivers alive: main's _rx (never dropped while main runs), the
\* monitor's receiver while its task runs, one per running session
RxCount ==
    1 + (IF mon_pc = "armed" THEN 1 ELSE 0)
      + Cardinality({s \in Sessions : s_pc[s] \in Live})

\* the count without main's socket_tx (as if main had moved its only sender
\* into the ingestion task)
TxCountNoSocketTx ==
    (IF bt_pc \in {"manager", "adapters", "info", "events", "start_scan", "loop"}
     THEN 1 ELSE 0)
      + (IF mon_pc \in {"spawned", "armed"} THEN 1 ELSE 0)

\* senders alive: main's socket_tx (main never leaves its accept loop), the
\* tx moved into the ingestion task until that task ends, the monitor's
\* monitor_tx until that task ends
TxCount ==
    (IF proc = "running" THEN 1 ELSE 0)
      + (IF bt_pc \in {"manager", "adapters", "info", "events", "start_scan", "loop"}
         THEN 1 ELSE 0)
      + (IF mon_pc \in {"spawned", "armed"} THEN 1 ELSE 0)

\* a full ring that refuses the new value instead of losing its oldest
PushDropNewest(buf, value) ==
    IF Len(buf) = Capacity THEN buf ELSE Append(buf, value)

\* the ring after one more value: a full ring loses its oldest value
Push(buf, value) ==
    IF Len(buf) = Capacity THEN Append(Tail(buf), value) ELSE Append(buf, value)

\* tx.send(value) on channel state ch with rx live receivers
Send(ch, value, rx) ==
    IF rx = 0
    THEN [ch EXCEPT !.recipients = "Err"]
    ELSE [buffer |-> Push(ch.buffer, value),
          tail |-> ch.tail + 1,
          published |-> Append(ch.published, value),
          recipients |-> "Ok"]

Chan == [buffer |-> buffer, tail |-> tail, published |-> published,
         recipients |-> recipients]

\* position of the oldest retained value
Oldest == tail - Len(buffer)

\* a subscription that replays what the channel still retains
SubscribeAtOldest == Oldest

\* tx.subscribe(): the cursor of the new receiver, the tail of the channel
Subscribe == tail

\* a receiver that reads the newest value instead of the one at its cursor
SlotValueNewest(pos) == buffer[Len(buffer)]

\* the retained value at position pos
SlotValue(pos) == buffer[pos - Oldest + 1]

\* receiver.recv() for a receiver whose cursor is n
Recv(n) ==
    IF n = tail
    THEN [kind |-> IF TxCount = 0 THEN "Closed" ELSE "Empty",
          value |-> 0, next |-> n, missed |-> 0]
    ELSE IF n < Oldest
         THEN [kind |-> "Lagged", value |-> 0, next |-> Oldest,
               missed |-> Oldest - n]
         ELSE [kind |-> "Ok", value |-> SlotValue(n), next |-> n + 1,
               missed |-> 0]

\* ------------------------------------------------------------------ Init
\* the channel and the sessions before anything was sent or accepted
NoTraffic ==
    /\ accepted = 0
    /\ buffer = <<>> /\ tail = 0 /\ published = <<>> /\ recipients = "none"
    /\ mon_next = 0
    /\ s_pc = [s \in Sessions |-> "none"]
    /\ next = [s \in Sessions |-> 0]
    /\ start = [s \in Sessions |-> 0]
    /\ sv = [s \in Sessions |-> 0]
    /\ rcvd = [s \in Sessions |-> <<>>]
    /\ lag = [s \in Sessions |-> <<>>]
    /\ json_write_res = [s \in Sessions |-> "none"]
    /\ wire = [s \in Sessions |-> <<>>]
    /\ broken = [s \in Sessions |-> FALSE]
    /\ io_errors = 0
    /\ attempts = [s \in Sessions |-> [json |-> 0, newline |-> 0, flush |-> 0]]

\* ------------------------------------------------------------------ json
\* serde_json's null
Null == [type |-> "null"]

\* json! of an Option: None is null, Some(x) is the value x
ToJson(opt) == IF Len(opt) = 0 THEN Null ELSE [type |-> "value", v |-> opt[1]]

\* json! of .map(|av| Some(vec!(a, b, c))): null, or the array [a, b, c]
VecToJson(opt) ==
    IF Len(opt) = 0 THEN Null
    ELSE [type |-> "array", v |-> <<opt[1][1], opt[1][2], opt[1][3]>>]

\* an object whose two temperature keys both carry the millikelvins
JsonKelvinsTwice(s) ==
    [acceleration_vector_as_milli_g |->
         VecToJson(s["acceleration_vector_as_milli_g"]),
     battery_potential_as_millivolts |->
         ToJson(s["battery_potential_as_millivolts"]),
     humidity_as_ppm |-> ToJson(s["humidity_as_ppm"]),
     mac_address |-> ToJson(s["mac_address"]),
     measurement_sequence_number |-> ToJson(s["measurement_sequence_number"]),
     movement_counter |-> ToJson(s["movement_counter"]),
     pressure_as_pascals |-> ToJson(s["pressure_as_pascals"]),
     temperature_as_millikelvins |-> ToJson(s["temperature_as_millikelvins"]),
     temperature_as_millicelsius |-> ToJson(s["temperature_as_millikelvins"]),
     tx_power_as_dbm |-> ToJson(s["tx_power_as_dbm"])]

\* json!({ ... }) of handle_socket: the object built from a SensorValues
Json(s) ==
    [acceleration_vector_as_milli_g |->
         VecToJson(s["acceleration_vector_as_milli_g"]),
     battery_potential_as_millivolts |->
         ToJson(s["battery_potential_as_millivolts"]),
     humidity_as_ppm |-> ToJson(s["humidity_as_ppm"]),
     mac_address |-> ToJson(s["mac_address"]),
     measurement_sequence_number |-> ToJson(s["measurement_sequence_number"]),
     movement_counter |-> ToJson(s["movement_counter"]),
     pressure_as_pascals |-> ToJson(s["pressure_as_pascals"]),
     temperature_as_millikelvins |-> ToJson(s["temperature_as_millikelvins"]),
     temperature_as_millicelsius |-> ToJson(s["temperature_as_millicelsius"]),
     tx_power_as_dbm |-> ToJson(s["tx_power_as_dbm"])]

\* a monitor task spawned whatever the timeout is
MonitorSpawnedAlways(timeout) == "spawned"

\* if opt.initial_event_timeout != 0 { tokio::spawn(monitor) }
MonitorSpawned(timeout) == IF timeout # 0 THEN "spawned" ELSE "absent"

\* main up to its first await: the channel exists, the monitor task is
\* spawned when the timeout is not 0, the ingestion task is spawned
MainInit ==
    /\ initial_event_timeout \in 0..MaxTimeout
    /\ proc = "running" /\ exit_code = 0 /\ exit_cause = "none"
    /\ main_pc = "bind"
    /\ bt_pc = "manager" /\ start_result = "none"
    /\ mon_pc = MonitorSpawned(initial_event_timeout)
    /\ elapsed = 0
    /\ first_pub = "none"
    /\ NoTraffic

\* the program; the records it carries are identified by their sequence
\* numbers, and no SensorValues is looked at field by field
Init ==
    /\ MainInit
    /\ json_sv = [a \in Accessors |-> None] /\ json_value = <<>>

\* the process ends: every task, the channel and the sockets are gone
Exit(code, cause) ==
    /\ proc' = "exited" /\ exit_code' = code /\ exit_cause' = cause
    /\ main_pc' = "exited" /\ bt_pc' = "exited"
    /\ accepted' = 0
    /\ buffer' = <<>> /\ tail' = 0 /\ published' = <<>>
    /\ recipients' = "none"
    /\ mon_next' = 0
    /\ s_pc' = [s \in Sessions |-> "none"]
    /\ next' = [s \in Sessions |-> 0]
    /\ start' = [s \in Sessions |-> 0]
    /\ sv' = [s \in Sessions |-> 0]
    /\ rcvd' = [s \in Sessions |-> <<>>]
    /\ lag' = [s \in Sessions |-> <<>>]
    /\ json_write_res' = [s \in Sessions |-> "none"]
    /\ wire' = [s \in Sessions |-> <<>>]
    /\ broken' = [s \in Sessions |-> FALSE]
    /\ io_errors' = 0
    /\ attempts' = [s \in Sessions |-> [json |-> 0, newline |-> 0, flush |-> 0]]
    /\ UNCHANGED <<initial_event_timeout, json_vars, start_result, elapsed, first_pub>>

\* ------------------------------------------------------------------ main
\* TcpListener::bind(..).await.unwrap(), success
Bind ==
    /\ proc = "running" /\ main_pc = "bind"
    /\ main_pc' = "accept"
    /\ UNCHANGED <<initial_event_timeout, json_vars, proc_vars, accepted, chan_vars,
                   bt_vars, mon_vars, first_pub, sess_vars>>

\* bind or accept returns Err: unwrap panics in main and the process ends
MainPanic ==
    /\ proc = "running" /\ main_pc \in {"bind", "accept"}
    /\ mon_pc' = (IF mon_pc = "absent" THEN "absent" ELSE "killed")
    /\ Exit(101, "main_panic")

\* an accept loop that runs each session to its end before it accepts again
AcceptReadyAfterSessions ==
    main_pc = "accept" /\ \A s \in Sessions : s_pc[s] \notin Live

\* main is at listener.accept(): tokio::spawn hands the session to its own
\* task and the loop comes back here without awaiting it
AcceptReady == main_pc = "accept"

\* listener.accept(), socket_tx.subscribe(), tokio::spawn(handle_socket)
Accept ==
    /\ proc = "running" /\ AcceptReady
    /\ accepted < MaxSessions
    /\ LET s == accepted + 1 IN
         /\ accepted' = s
         /\ s_pc' = [s_pc EXCEPT ![s] = "recv"]
         /\ next' = [next EXCEPT ![s] = Subscribe]
         /\ start' = [start EXCEPT ![s] = tail]
    /\ UNCHANGED <<initial_event_timeout, json_vars, proc_vars, main_pc, chan_vars,
                   bt_vars, mon_vars, first_pub, sv, rcvd, lag,
                   json_write_res, wire, broken,
                   io_errors, attempts>>

\* ------------------------------------------------- ingestion: bt_event_scan
\* Manager::new().await.unwrap()
BtManager ==
    /\ proc = "running" /\ bt_pc = "manager"
    /\ \E r \in {"Ok", "Err"} :
         bt_pc' = (IF r = "Ok" THEN "adapters" ELSE "panicked")
    /\ UNCHANGED <<initial_event_timeout, json_vars, proc_vars, main_vars,
                   chan_vars, start_result, mon_vars, first_pub, sess_vars>>

\* manager.adapters().await? and adapters.get(0).unwrap()
BtAdapters ==
    /\ proc = "running" /\ bt_pc = "adapters"
    /\ \E r \in {"Some", "Empty", "Err"} :
         bt_pc' = (CASE r = "Some" -> "info"
                     [] r = "Empty" -> "panicked"
                     [] r = "Err" -> "returned_err")
    /\ UNCHANGED <<initial_event_timeout, json_vars, proc_vars, main_vars,
                   chan_vars, start_result, mon_vars, first_pub, sess_vars>>

\* adapter.adapter_info().await?
BtAdapterInfo ==
    /\ proc = "running" /\ bt_pc = "info"
    /\ \E r \in {"Ok", "Err"} :
         bt_pc' = (IF r = "Ok" THEN "events" ELSE "returned_err")
    /\ UNCHANGED <<initial_event_timeout, json_vars, proc_vars, main_vars,
                   chan_vars, start_result, mon_vars, first_pub, sess_vars>>

\* adapter.events().await?
BtEvents ==
    /\ proc = "running" /\ bt_pc = "events"
    /\ \E r \in {"Ok", "Err"} :
         bt_pc' = (IF r = "Ok" THEN "start_scan" ELSE "returned_err")
    /\ UNCHANGED <<initial_event_timeout, json_vars, proc_vars, main_vars,
                   chan_vars, start_result, mon_vars, first_pub, sess_vars>>

\* adapter.start_scan(..).await: the result is logged, never inspected
BtStartScan ==
    /\ proc = "running" /\ bt_pc = "start_scan"
    /\ start_result' \in {"Ok", "Err"}
    /\ bt_pc' = "loop"
    /\ UNCHANGED <<initial_event_timeout, json_vars, proc_vars, main_vars,
                   chan_vars, mon_vars, first_pub, sess_vars>>

\* the for loop over manufacturer_data: decode each pair, send what decodes
\* a scan that gives up the advertisement at the first pair that fails to
\* decode, the map iterating its failing pairs first
RECURSIVE ScanPairsStopsAtError(_, _, _, _)
ScanPairsStopsAtError(ids, manufacturer_data, ch, rx) ==
    IF ids = {} THEN ch
    ELSE LET failing == {i \in ids : ~from_manufacturer_specific_data(
                                          i, manufacturer_data[i]).ok}
             manufacturer_id == CHOOSE i \in ids : failing # {} => i \in failing
             parsed == from_manufacturer_specific_data(
                           manufacturer_id, manufacturer_data[manufacturer_id])
         IN IF parsed.ok
            THEN ScanPairsStopsAtError(ids \ {manufacturer_id}, manufacturer_data,
                                       Send(ch, parsed.sv, rx), rx)
            ELSE ch

RECURSIVE ScanPairs(_, _, _, _)
ScanPairs(ids, manufacturer_data, ch, rx) ==
    IF ids = {} THEN ch
    ELSE LET manufacturer_id == CHOOSE i \in ids : TRUE
             parsed == from_manufacturer_specific_data(
                           manufacturer_id, manufacturer_data[manufacturer_id])
             sent == IF parsed.ok THEN Send(ch, parsed.sv, rx) ELSE ch
         IN ScanPairs(ids \ {manufacturer_id}, manufacturer_data, sent, rx)

\* what the monitor had seen of time when the first record was sent
FirstPubMark ==
    CASE mon_pc = "absent" -> "no_watchdog"
      [] mon_pc = "spawned" -> "before_armed"
      [] mon_pc = "armed" /\ elapsed < initial_event_timeout -> "before_deadline"
      [] OTHER -> "at_deadline"

\* events.next() returns a ManufacturerDataAdvertisement (the adapter reports
\* advertisements only while it scans; the tag numbers its broadcasts)
BtAdvertisement ==
    /\ proc = "running" /\ bt_pc = "loop" /\ start_result = "Ok"
    /\ \E manufacturer_data \in ManufacturerData(tail + 1) :
         LET ch == ScanPairs(DOMAIN manufacturer_data, manufacturer_data,
                             Chan, RxCount)
         IN /\ ch.tail <= MaxPub
            /\ buffer' = ch.buffer
            /\ tail' = ch.tail
            /\ published' = ch.published
            /\ recipients' = ch.recipients
            /\ first_pub' = (IF tail = 0 /\ ch.tail > 0 THEN FirstPubMark
                             ELSE first_pub)
    /\ UNCHANGED <<initial_event_timeout, json_vars, proc_vars, main_vars, bt_vars,
                   mon_vars, sess_vars>>

\* events.next() returns any other CentralEvent: ignored
BtOtherEvent ==
    /\ proc = "running" /\ bt_pc = "loop"
    /\ UNCHANGED vars

\* events.next() returns None: stop_scan, return Ok(())
BtStreamEnd ==
    /\ proc = "running" /\ bt_pc = "loop"
    /\ bt_pc' = "returned_ok"
    /\ UNCHANGED <<initial_event_timeout, json_vars, proc_vars, main_vars,
                   chan_vars, start_result, mon_vars, first_pub, sess_vars>>

\* ------------------------------------------------------ monitor (watchdog)
\* first poll of the monitor task: subscribe, create recv() and sleep(T)
MonStart ==
    /\ proc = "running" /\ mon_pc = "spawned"
    /\ mon_pc' = "armed" /\ mon_next' = Subscribe /\ elapsed' = 0
    /\ UNCHANGED <<initial_event_timeout, json_vars, proc_vars, main_vars,
                   chan_vars, bt_vars, first_pub, sess_vars>>

\* one second passes on the monitor's sleep
Tick ==
    /\ proc = "running" /\ mon_pc = "armed"
    /\ elapsed < initial_event_timeout
    /\ elapsed' = elapsed + 1
    /\ UNCHANGED <<initial_event_timeout, json_vars, proc_vars, main_vars,
                   chan_vars, bt_vars, mon_pc, mon_next, first_pub, sess_vars>>

\* a sleep that is ready at once
SleepReadyAtOnce == TRUE

\* sleep(Duration::from_secs(T)) is ready
SleepReady == elapsed >= initial_event_timeout

\* a monitor that takes the record out of the channel as it receives it
MonEventTakesRecord ==
    /\ proc = "running" /\ mon_pc = "armed"
    /\ Recv(mon_next).kind # "Empty"
    /\ mon_pc' = "satisfied"
    /\ mon_next' = Recv(mon_next).next
    /\ buffer' = Tail(buffer)
    /\ UNCHANGED <<initial_event_timeout, json_vars, proc_vars, main_vars,
                   tail, published, recipients, bt_vars, elapsed, first_pub,
                   sess_vars>>

\* select! takes the event_task branch: recv() is ready (Ok or Lagged)
MonEvent ==
    /\ proc = "running" /\ mon_pc = "armed"
    /\ Recv(mon_next).kind # "Empty"
    /\ mon_pc' = "satisfied"
    /\ mon_next' = Recv(mon_next).next
    /\ UNCHANGED <<initial_event_timeout, json_vars, proc_vars, main_vars,
                   chan_vars, bt_vars, elapsed, first_pub, sess_vars>>

\* select! takes the sleep_task branch: process::exit(1)
MonSleep ==
    /\ proc = "running" /\ mon_pc = "armed"
    /\ SleepReady
    /\ mon_pc' = "expired"
    /\ Exit(1, "watchdog")

\* ------------------------------------------------- session: handle_socket
\* a panic that takes the whole process down (not what tokio does)
UnwrapLaggedAborts(s, r) ==
    /\ mon_pc' = (IF mon_pc = "absent" THEN "absent" ELSE "killed")
    /\ Exit(101, "session_panic")

\* unwrap() of Err(Lagged(n)): the task panics; the runtime catches the
\* panic of a spawned task, so only that task ends
UnwrapLagged(s, r) ==
    /\ s_pc' = [s_pc EXCEPT ![s] = "panicked"]
    /\ next' = [next EXCEPT ![s] = r.next]
    /\ lag' = [lag EXCEPT ![s] = Append(@, r.missed)]
    /\ UNCHANGED <<initial_event_timeout, json_vars, proc_vars, main_vars,
                   chan_vars, bt_vars, mon_vars, first_pub, start, sv, rcvd,
                   json_write_res, wire, broken,
                   io_errors, attempts>>

\* unwrap() of Err(Closed): the task panics as well
UnwrapClosed(s) ==
    /\ s_pc' = [s_pc EXCEPT ![s] = "panicked"]
    /\ UNCHANGED <<initial_event_timeout, json_vars, proc_vars, main_vars,
                   chan_vars, bt_vars, mon_vars, first_pub, next, start, sv,
                   rcvd, lag, json_write_res, wire, broken,
                   io_errors, attempts>>

\* receiver.recv().await.unwrap(): Ok(sv) goes on to the write, Err(Lagged)
\* and Err(Closed) panic the task; Empty keeps the task suspended
SocketRecv(s) ==
    /\ proc = "running" /\ s_pc[s] = "recv"
    /\ LET r == Recv(next[s]) IN
         /\ r.kind # "Empty"
         /\ IF r.kind = "Ok"
            THEN /\ s_pc' = [s_pc EXCEPT ![s] = "write_json"]
                 /\ next' = [next EXCEPT ![s] = r.next]
                 /\ sv' = [sv EXCEPT ![s] = r.value]
                 /\ rcvd' = [rcvd EXCEPT ![s] = Append(@, r.value)]
                 /\ UNCHANGED <<initial_event_timeout, json_vars, proc_vars, main_vars,
                                chan_vars, bt_vars, mon_vars, first_pub, start,
                                lag, json_write_res, wire, broken,
                   io_errors, attempts>>
            ELSE IF r.kind = "Closed" THEN UnwrapClosed(s)
            ELSE UnwrapLagged(s, r)

\* results a write on the socket of session s can have: Ok, BrokenPipe (the
\* client has closed the connection) or an error of another kind
WriteResults(s) ==
    {"Ok", "BrokenPipe"} \cup (IF io_errors < MaxIoErrors THEN {"Other"} ELSE {})

\* socket.flush(): flushing a tokio TcpStream does nothing, never suspends
\* and returns Ok
FlushResults(s) == {"Ok"}

\* value.to_string() as it appears on the wire, and the separator
JsonBytes(value) == [t |-> "json", v |-> value]
NewlineBytes == [t |-> "crlf", v |-> 0]
Shutdown == [t |-> "shutdown", v |-> 0]

\* socket.write_all(&json_bytes).await
WriteJson(s) ==
    /\ proc = "running" /\ s_pc[s] = "write_json"
    /\ \E r \in WriteResults(s) :
         /\ json_write_res' = [json_write_res EXCEPT ![s] = r]
         /\ wire' = [wire EXCEPT ![s] =
                        IF r = "Ok" THEN Append(@, JsonBytes(sv[s])) ELSE @]
         /\ io_errors' = (IF r = "Other" THEN io_errors + 1 ELSE io_errors)
         /\ attempts' = [attempts EXCEPT ![s].json = @ + 1]
         /\ broken' = [broken EXCEPT ![s] = @ \/ r = "BrokenPipe"]
    /\ s_pc' = [s_pc EXCEPT ![s] = "write_newline"]
    /\ UNCHANGED <<initial_event_timeout, json_vars, proc_vars, main_vars,
                   chan_vars, bt_vars, mon_vars, first_pub, next, start, sv, rcvd, lag>>

\* Result::and: the first error of the two, else the second result
ResultAnd(a, b) == IF a = "Ok" THEN b ELSE a

\* json_write_res.and(newline_write_res).and(flush_res)
SendResult(json_res, newline_res, flush_res) ==
    ResultAnd(ResultAnd(json_res, newline_res), flush_res)

\* a match that sends the same record again after an error that is only
\* logged
MatchResultRetries(res) ==
    IF res = "BrokenPipe" THEN "closed"
    ELSE IF res = "Other" THEN "write_json" ELSE "recv"

\* a match that leaves the loop on any error
MatchResultEndsOnError(res) == IF res = "Ok" THEN "recv" ELSE "closed"

\* the match on the combined result: BrokenPipe leaves the loop, anything
\* else (Ok, or an error that is only logged) goes back to recv()
MatchResult(res) == IF res = "BrokenPipe" THEN "closed" ELSE "recv"

\* socket.write_all(newline_bytes).await, socket.flush().await and the
\* match: on BrokenPipe socket.shutdown() and break
WriteNewline(s) ==
    /\ proc = "running" /\ s_pc[s] = "write_newline"
    /\ \E newline_write_res \in WriteResults(s), flush_res \in FlushResults(s) :
         LET to == MatchResult(SendResult(json_write_res[s],
                                          newline_write_res, flush_res))
             written == IF newline_write_res = "Ok"
                        THEN Append(wire[s], NewlineBytes) ELSE wire[s]
         IN /\ io_errors' = (IF newline_write_res = "Other"
                             THEN io_errors + 1 ELSE io_errors)
            /\ attempts' = [attempts EXCEPT ![s].newline = @ + 1,
                                            ![s].flush = @ + 1]
            /\ broken' = [broken EXCEPT ![s] =
                              @ \/ newline_write_res = "BrokenPipe"
                                \/ flush_res = "BrokenPipe"]
            /\ s_pc' = [s_pc EXCEPT ![s] = to]
            /\ wire' = [wire EXCEPT ![s] =
                  IF to = "closed" THEN Append(written, Shutdown) ELSE written]
    /\ sv' = [sv EXCEPT ![s] = 0]
    /\ json_write_res' = [json_write_res EXCEPT ![s] = "none"]
    /\ UNCHANGED <<initial_event_timeout, json_vars, proc_vars, main_vars,
                   chan_vars, bt_vars, mon_vars, first_pub, next, start, rcvd, lag>>

\* ------------------------------------------------------------------ Next
Ingest ==
    \/ BtManager \/ BtAdapters \/ BtAdapterInfo \/ BtEvents \/ BtStartScan
    \/ BtAdvertisement \/ BtOtherEvent \/ BtStreamEnd

Monitor == MonStart \/ Tick \/ MonEvent \/ MonSleep

Session(s) ==
    \/ SocketRecv(s) \/ WriteJson(s) \/ WriteNewline(s)

Next ==
    \/ Bind \/ MainPanic \/ Accept
    \/ Ingest
    \/ Monitor
    \/ \E s \in Sessions : Session(s)

Spec == Init /\ [][Next]_vars

\* the same program when no decodable advertisement ever arrives: nothing is
\* sent, so no recv() completes and the sessions stay suspended
\* json! alone, applied to every SensorValues of SensorValuesSet
JsonInit ==
    /\ MainInit
    /\ json_sv \in SensorValuesSet /\ json_value = <<>>

\* let value = json!({ ... })
BuildJson ==
    /\ DOMAIN json_value = {}
    /\ json_value' = Json(json_sv)
    /\ UNCHANGED <<initial_event_timeout, json_sv, proc_vars, main_vars,
                   chan_vars, bt_vars, mon_vars, first_pub, sess_vars>>

JsonNext == BuildJson

JsonSpec == JsonInit /\ [][JsonNext]_vars

SilentAdvertisement == BtAdvertisement /\ UNCHANGED tail

SilentNext ==
    \/ Bind \/ MainPanic \/ Accept
    \/ BtManager \/ BtAdapters \/ BtAdapterInfo \/ BtEvents \/ BtStartScan
    \/ SilentAdvertisement \/ BtOtherEvent \/ BtStreamEnd
    \/ MonStart \/ Tick \/ MonSleep

\* the runtime polls the spawned monitor task, time passes, and a ready
\* sleep is taken by select!
MonitorFairness ==
    WF_vars(MonStart) /\ WF_vars(Tick) /\ WF_vars(MonSleep)

SilentSpec == Init /\ [][SilentNext]_vars /\ MonitorFairness

\* ---------------------------------------------------------------- claims
Running(s) == s_pc[s] \in Live

\* C1: every session that never lagged has received from recv() exactly the
\* records published since its subscription up to its cursor: each one once,
\* none missing, in publish order, whatever the other sessions did.
C1_InOrderExactlyOnce ==
    \A s \in Sessions :
        (s_pc[s] # "none" /\ lag[s] = <<>>)
            => /\ start[s] <= next[s] /\ next[s] <= tail
               /\ rcvd[s] = SubSeq(published, start[s] + 1, next[s])

\* two sessions attached at different times, both having received records
C1_Witness ==
    \E s, o \in Sessions :
        /\ s # o /\ start[s] < start[o]
        /\ Len(rcvd[s]) >= 2 /\ Len(rcvd[o]) >= 1
        /\ lag[s] = <<>> /\ lag[o] = <<>>

\* C2: a session whose subscription missed more than the capacity gets one
\* Lagged signal and afterwards goes on delivering: it is still running.
C2_LaggedSessionResumes ==
    \A s \in Sessions :
        lag[s] # <<>> => (Len(lag[s]) = 1 /\ Running(s))

\* C3: a session leaves its loop only by the broken-pipe branch or with the
\* process; no result of recv() ends it.
C3_OnlyBrokenPipeEndsSession ==
    [][\A s \in Sessions :
          (Running(s) /\ ~Running(s)')
              => (s_pc'[s] = "closed" \/ proc' = "exited")]_vars

\* C4: once a step of a session's send has failed with BrokenPipe, the session
\* ends within that write cycle: it is finishing the cycle or it has shut the
\* socket down and left the loop, and never is back at recv() or at a write
\* of another record.
C4_BrokenPipeEndsSession ==
    \A s \in Sessions :
        broken[s] =>
            \/ s_pc[s] = "write_newline"
            \/ (s_pc[s] = "closed" /\ wire[s][Len(wire[s])] = Shutdown)

\* everything that belongs to session o
SessionState(o) ==
    <<s_pc[o], next[o], start[o], sv[o], rcvd[o], lag[o], json_write_res[o],
      wire[o], broken[o], attempts[o]>>

\* C5: a step of a session, in particular one that ends it (broken pipe,
\* panic) or one whose write fails, changes nothing of the ingestion task,
\* of the channel, of main's accept loop, of the monitor, of the process or
\* of any other session.
C5_SessionFailureIsIsolated ==
    [][\A s \in Sessions :
          (Running(s) /\ s_pc'[s] # s_pc[s]
             /\ exit_cause' \notin {"watchdog", "main_panic"})
              => /\ UNCHANGED <<proc_vars, main_vars, chan_vars, bt_vars,
                                mon_vars>>
                 /\ \A o \in Sessions \ {s} :
                        SessionState(o)' = SessionState(o)]_vars

\* one session has ended, by panic, and another one, attached later, has
\* received every record published since it subscribed while ingestion and
\* the accept loop go on
C5_Witness ==
    \E s, o \in Sessions :
        /\ s_pc[s] = "panicked" /\ Running(o)
        /\ next[o] = tail /\ Len(rcvd[o]) >= 1
        /\ bt_pc = "loop" /\ main_pc = "accept" /\ proc = "running"

\* the ingestion task sends one more record
PublishStep == BtAdvertisement /\ tail' = tail + 1

\* C6: while the ingestion task is in its loop, sending a record is possible
\* and succeeds (there is a receiver), however far behind the sessions are.
C6_PublishNeverBlocks ==
    (proc = "running" /\ bt_pc = "loop" /\ start_result = "Ok"
       /\ tail < MaxPub)
        => (RxCount >= 1 /\ ENABLED PublishStep)

\* the ring is full of records a running session has not read, and the
\* ingestion task is about to send
C6_Witness ==
    /\ proc = "running" /\ bt_pc = "loop" /\ start_result = "Ok"
    /\ tail < MaxPub /\ Len(buffer) = Capacity
    /\ \E s \in Sessions : Running(s) /\ tail - next[s] >= Capacity

Min(a, b) == IF a <= b THEN a ELSE b

\* C7: the ring holds at most Capacity records and they are the newest ones
\* sent, in the order sent; so a send on a full ring drops exactly the oldest.
C7_BufferHoldsNewest ==
    /\ Len(buffer) <= Capacity
    /\ tail = Len(published)
    /\ Len(buffer) = Min(tail, Capacity)
    /\ buffer = SubSeq(published, tail - Len(buffer) + 1, tail)

\* a record was dropped from the full ring before a running session read it
C7_Witness ==
    /\ tail > Capacity /\ Len(buffer) = Capacity
    /\ \E s \in Sessions : s_pc[s] = "recv" /\ next[s] < Oldest

\* the ingestion task failed at startup
IngestionFailed ==
    bt_pc \in {"panicked", "returned_err"} \/ start_result = "Err"

\* C8: once ingestion has failed at startup the process does not go on
\* accepting connections.
C8_IngestionFailureIsFatal ==
    [][(IngestionFailed /\ proc = "running") => accepted' <= accepted]_vars

\* C9: a first record sent before the monitor's deadline fired means the
\* monitor does not expire.
C9_RecordBeforeDeadlineSatisfies ==
    first_pub \in {"before_armed", "before_deadline"} => mon_pc # "expired"

\* C10 as stated: with a timeout T > 0 and no record ever sent, the process
\* ends with status 1 through the monitor, whatever main, the ingestion task
\* and the sessions do.
C10_WatchdogAlwaysExits ==
    (initial_event_timeout > 0)
        => <>(exit_cause = "watchdog" /\ exit_code = 1)

\* C10 amended: with T > 0 and no record ever sent, the process ends; it ends
\* through the monitor with status 1 and not before T seconds of the sleep
\* have passed, unless a failed bind or accept has ended it in main first.
C10_WatchdogExitsUnlessMainPanics ==
    /\ (initial_event_timeout > 0) => <>(proc = "exited")
    /\ [](proc = "exited" => exit_cause \in {"watchdog", "main_panic"})
    /\ [](exit_cause = "watchdog"
            => /\ exit_code = 1 /\ initial_event_timeout > 0
               /\ elapsed >= initial_event_timeout)

\* the monitor has ended the process after its whole timeout, nothing sent
C10_Witness ==
    /\ proc = "exited" /\ exit_cause = "watchdog" /\ exit_code = 1
    /\ initial_event_timeout > 0 /\ elapsed = initial_event_timeout
    /\ first_pub = "none"

\* C11: with initial_event_timeout = 0 no monitor task exists: it has no
\* receiver and no sleep, and the process never ends through the monitor.
C11_NoWatchdogWhenTimeoutZero ==
    initial_event_timeout = 0
        => /\ mon_pc = "absent" /\ mon_next = 0 /\ elapsed = 0
           /\ exit_cause # "watchdog"
           /\ RxCount = 1 + Cardinality({s \in Sessions : Running(s)})

\* timeout 0, the ingestion task has ended without a record ever sent, a
\* session waits, and the process still runs
C11_Witness ==
    /\ initial_event_timeout = 0 /\ proc = "running"
    /\ bt_pc = "returned_ok" /\ tail = 0
    /\ \E s \in Sessions : s_pc[s] = "recv"

\* the pairs of an advertisement that decode
Decodable(manufacturer_data) ==
    {id \in DOMAIN manufacturer_data :
        from_manufacturer_specific_data(id, manufacturer_data[id]).ok}

\* C12: whatever advertisement the adapter reports next, the pairs that fail
\* to decode send nothing and the pairs that decode are all sent, whichever
\* pairs failed beside them; what was sent before stays, every value sent is
\* a decoded one, and the ingestion loop is left only when the event stream
\* ends or the process exits.
C12_DecodeFailureIsSkipped ==
    /\ \A k \in 1..Len(published) : published[k] = k
    /\ (proc = "running" /\ bt_pc = "loop") =>
          \A manufacturer_data \in ManufacturerData(tail + 1) :
             LET ch == ScanPairs(DOMAIN manufacturer_data, manufacturer_data,
                                 Chan, RxCount)
                 good == Decodable(manufacturer_data)
             IN /\ Len(ch.published) = Len(published) + Cardinality(good)
                /\ SubSeq(ch.published, 1, Len(published)) = published
                /\ \A id \in good :
                      \E k \in (Len(published) + 1)..Len(ch.published) :
                         ch.published[k] =
                            from_manufacturer_specific_data(
                               id, manufacturer_data[id]).sv
    /\ bt_pc \in {"returned_ok", "returned_err", "panicked"} =>
          (bt_pc = "returned_ok" \/ tail = 0)

\* the loop has handled advertisements, records were sent and delivered, and
\* further advertisements (with or without failing pairs) can follow
C12_Witness ==
    /\ proc = "running" /\ bt_pc = "loop"
    /\ tail >= 2 /\ tail < MaxPub
    /\ \E s \in Sessions : Len(rcvd[s]) >= 2

\* C13: as long as no write of a session has reported a broken pipe, what it
\* has written is a run of whole messages: every CRLF directly follows the
\* JSON text of its record, and every JSON text is directly followed by its
\* CRLF, the last one at the latest when its write cycle ends; this also
\* after a write that failed with another error.
C13_WireIsWholeMessages ==
    \A s \in Sessions :
        ~broken[s] =>
            \A i \in 1..Len(wire[s]) :
                /\ wire[s][i] = NewlineBytes
                      => (i > 1 /\ wire[s][i - 1].t = "json")
                /\ wire[s][i].t = "json"
                      => IF i < Len(wire[s]) THEN wire[s][i + 1] = NewlineBytes
                         ELSE s_pc[s] = "write_newline"

\* C14: a session receives and writes only records sent after its
\* subscription was created: nothing sent before, retained or not.
C14_NothingFromBeforeSubscription ==
    \A s \in Sessions :
        /\ \A i \in 1..Len(rcvd[s]) :
              \E k \in (start[s] + 1)..Len(published) : rcvd[s][i] = published[k]
        /\ \A i \in 1..Len(wire[s]) :
              wire[s][i].t = "json" =>
                 \E k \in (start[s] + 1)..Len(published) :
                    wire[s][i] = JsonBytes(published[k])
        /\ (s_pc[s] = "recv" /\ Recv(next[s]).kind = "Ok")
              => next[s] >= start[s]

\* a session accepted while the channel retained an earlier record, which
\* has since received and written a later one; a client that connected
\* before had the earlier record
C14_Witness ==
    \E s \in Sessions :
        /\ start[s] >= 1 /\ rcvd[s] # <<>>
        /\ \E i \in 1..Len(wire[s]) : wire[s][i].t = "json"
        /\ \E o \in Sessions : start[o] = 0 /\ rcvd[o] # <<>>

\* C15: while the process runs with its listener bound, the next connection
\* can be accepted, however many sessions exist and wherever each of them
\* is (waiting in recv, in the middle of a write, ended).
C15_AcceptNeverWaitsForSessions ==
    (proc = "running" /\ main_pc = "accept" /\ accepted < MaxSessions)
        => ENABLED Accept

\* a connection was accepted, its session is in the middle of a write, and
\* main is back at accept
C15_Witness ==
    /\ proc = "running" /\ main_pc = "accept" /\ accepted < MaxSessions
    /\ \E s \in Sessions : s_pc[s] \in {"write_json", "write_newline"}

\* the write cycle of session s ends in this step with a combined result
\* that is an error of a kind other than BrokenPipe: the JSON write had
\* failed so, or it had succeeded and the CRLF write fails so now
OtherErrorEnds(s) ==
    /\ proc = "running" /\ proc' = "running"
    /\ s_pc[s] = "write_newline" /\ s_pc'[s] # "write_newline"
    /\ \/ json_write_res[s] = "Other"
       \/ (json_write_res[s] = "Ok" /\ io_errors' = io_errors + 1)

\* C16: when a session's send fails with an error other than BrokenPipe, the
\* session goes straight back to recv(): it is not ended, nothing is shut
\* down, its receiver keeps its cursor and nothing else of it changes.
C16_OtherErrorKeepsSession ==
    [][\A s \in Sessions :
          OtherErrorEnds(s) =>
             /\ s_pc'[s] = "recv"
             /\ next'[s] = next[s] /\ start'[s] = start[s]
             /\ rcvd'[s] = rcvd[s] /\ lag'[s] = lag[s]
             /\ \A i \in 1..Len(wire'[s]) : wire'[s][i] # Shutdown]_vars

\* the only session had a send fail with another error and has since
\* received the next record
C16_Witness ==
    /\ accepted = 1 /\ io_errors = 1 /\ ~broken[1]
    /\ s_pc[1] = "write_json" /\ Len(rcvd[1]) = 2

\* the ten keys of a message
DocumentedKeys ==
    {"acceleration_vector_as_milli_g", "battery_potential_as_millivolts",
     "humidity_as_ppm", "mac_address", "measurement_sequence_number",
     "movement_counter", "pressure_as_pascals",
     "temperature_as_millikelvins", "temperature_as_millicelsius",
     "tx_power_as_dbm"}

\* C17: the object built from a record has exactly the ten keys, and under
\* each key null when the record lacks that field and otherwise the value
\* the record has for it, whichever fields are present.
C17_TenKeysValueOrNull ==
    DOMAIN json_value # {} =>
        /\ DOMAIN json_value = DocumentedKeys
        /\ \A k \in DocumentedKeys :
              IF json_sv[k] = None
              THEN json_value[k] = Null
              ELSE /\ json_value[k] # Null
                   /\ json_value[k].v = Reading(k)

\* an object was built from a record that has some fields and lacks others,
\* the acceleration among those it has
C17_Witness ==
    /\ DOMAIN json_value # {}
    /\ json_sv["acceleration_vector_as_milli_g"] # None
    /\ json_sv["temperature_as_millicelsius"] # None
    /\ json_sv["mac_address"] = None
    /\ json_sv["humidity_as_ppm"] = None

\* C18: the step in which the monitor receives the first record through its
\* own receiver changes nothing of the channel and nothing of any session:
\* the record stays retained, every cursor stays, and what each session
\* will receive is what it would have received.
C18_MonitorReceiptLeavesChannel ==
    [][(proc = "running" /\ mon_pc = "armed" /\ mon_pc' = "satisfied")
          => /\ UNCHANGED <<buffer, tail, published>>
             /\ UNCHANGED <<s_pc, next, start, sv, rcvd, lag, wire>>]_vars

\* the monitor was armed when the first record was sent and has received
\* it; a session attached before that has received that record as well
C18_Witness ==
    /\ mon_pc = "satisfied" /\ first_pub = "before_deadline"
    /\ \E s \in Sessions :
          /\ start[s] = 0 /\ rcvd[s] # <<>>
          /\ rcvd[s][1] = published[1]

\* the ingestion task has ended: its event stream is exhausted or it failed
IngestionEnded == bt_pc \in {"returned_ok", "returned_err", "panicked"}

\* session s waits in recv() and has received everything that was sent
CaughtUp(s) == s_pc[s] = "recv" /\ next[s] = tail

\* C19 as stated: once the ingestion task has ended, the process does not
\* exit and a session waiting in recv() is not ended (a failure of the
\* listener, which the claim does not speak of, left aside).
C19_AfterIngestionNothingEnds ==
    [][(proc = "running" /\ IngestionEnded)
          => \/ exit_cause' = "main_panic"
             \/ /\ proc' = "running"
                /\ \A s \in Sessions : CaughtUp(s) => s_pc'[s] = "recv"]_vars

\* C19, amended: while the process runs the channel has a sender, so no
\* recv() returns Closed; and once the ingestion task has ended, a session
\* that has received everything sent stays waiting in recv(), with nothing
\* to receive, for as long as the process runs (the monitor or a panic of
\* main can still end the process).
C19_ChannelStaysOpen ==
    /\ [](proc = "running" =>
             /\ TxCount >= 1
             /\ Recv(mon_next).kind # "Closed"
             /\ \A s \in Sessions :
                   /\ Recv(next[s]).kind # "Closed"
                   /\ (IngestionEnded /\ CaughtUp(s)) => ~ENABLED SocketRecv(s))
    /\ [][(proc = "running" /\ proc' = "running" /\ IngestionEnded)
             => \A s \in Sessions : CaughtUp(s) => CaughtUp(s)']_vars

\* the ingestion task has ended after sending records, the monitor is done,
\* main holds the only sender, and a session that received them waits
C19_Witness ==
    /\ proc = "running" /\ IngestionEnded /\ TxCount = 1
    /\ tail >= 1 /\ mon_pc = "satisfied"
    /\ \E s \in Sessions : CaughtUp(s) /\ rcvd[s] # <<>>

\* C20: a session awaits the JSON write, the CRLF write and the flush once
\* each for every record recv() returned to it, all three whatever the
\* earlier ones returned, and never for a record a second time: its write
\* cycles are as many as the records it received, which are at most the
\* records sent since it subscribed, and no record is on its wire twice.
C20_OneSendAttemptPerRecord ==
    \A s \in Sessions :
        LET a == attempts[s] IN
        /\ a.json = Len(rcvd[s]) - (IF s_pc[s] = "write_json" THEN 1 ELSE 0)
        /\ a.newline = a.json - (IF s_pc[s] = "write_newline" THEN 1 ELSE 0)
        /\ a.flush = a.newline
        /\ Len(rcvd[s]) <= tail - start[s]
        /\ \A i, j \in 1..Len(wire[s]) :
              (i < j /\ wire[s][i].t = "json") => wire[s][i] # wire[s][j]

\* the only session has finished two write cycles, one of which failed with
\* an error that is only logged, while three records were sent
C20_Witness ==
    /\ accepted = 1 /\ io_errors = 1 /\ ~broken[1]
    /\ attempts[1] = [json |-> 2, newline |-> 2, flush |-> 2]
    /\ s_pc[1] = "recv" /\ tail = 3

====
